---- MODULE Spec2Model ----
(***************************************************************************)
(* State-machine model of src/src/components/GoldenHourApp.tsx: the React  *)
(* component GoldenHourApp, its four pieces of state, its one-second timer,*)
(* its location effect, its location-fix handler and the pure functions    *)
(* the render calls (lighting condition, next special time, countdown).    *)
(*                                                                         *)
(* Instants are integers in milliseconds, as Date.getTime() gives them,    *)
(* counted from local midnight of the first modelled day.                  *)
(***************************************************************************)
EXTENDS Integers, Sequences, FiniteSets, TLC

VARIABLES
    location,           \* useState<Location | null>          (line 23)
    sunTimes,           \* useState<SunTimes | null>          (line 24)
    currentTime,        \* useState(new Date())               (line 25)
    isLoadingLocation,  \* useState(false)                    (line 26)
    clock,              \* the wall clock that new Date() reads
    hasGeolocation,     \* whether navigator.geolocation exists (line 138)
    requests,           \* the calls of getCurrentLocation, in call order
    clicks,             \* the button clicks so far
    targetTime,         \* the argument of formatTimeUntil    (line 122)
    rendered            \* the string formatTimeUntil returned (line 258)

vars == <<location, sunTimes, currentTime, isLoadingLocation, clock,
          hasGeolocation, requests, clicks, targetTime, rendered>>

(***************************************************************************)
(* Bounds of the model.                                                    *)
(***************************************************************************)
\* Days of wall-clock time a behaviour covers.
MaxDays == 2
\* Calls of getCurrentLocation in one behaviour.
MaxRequests == 3
\* Minutes of wall-clock time between two modelled instants of Spec.
TickMinutes == 10
\* Modelled instants the wall clock may run ahead of the last timer callback.
MaxLag == 1
\* Minutes between two modelled instants of SpecWindows.
FineMinutes == 5
\* Modelled instants of SpecWindows (from WindowsStart on).
FineTicks == 24

(***************************************************************************)
(* Time arithmetic of the source.                                          *)
(***************************************************************************)
MinuteMs == 60 * 1000
HourMs == 1000 * 60 * 60
\* tomorrow.setDate(tomorrow.getDate() + 1): one calendar day later.
DayMs == 24 * HourMs
\* 30 * 60 * 1000: the golden-hour margin.
GoldenMs == 30 * 60 * 1000
\* 20 * 60 * 1000: the blue-hour margin.
BlueMs == 20 * 60 * 1000

StepMs == TickMinutes * MinuteMs
FineStepMs == FineMinutes * MinuteMs
Horizon == MaxDays * DayMs
WindowsStart == 11 * HourMs

\* null
Null == [null |-> TRUE]

(***************************************************************************)
(* The coordinates a location fix can yield, and SunCalc.getTimes.         *)
(* SunCalc is an external library: it is modelled by its contract, a       *)
(* function of the day the given instant falls in and of the coordinate,   *)
(* returning that day's sunrise and sunset with sunrise < sunset.          *)
(***************************************************************************)
\* A mid-latitude site: sunrise 06:00, sunset 18:00.
Temperate == [latitude |-> 48, longitude |-> 2]
\* A site just below the polar circle near the summer solstice:
\* sunrise 00:05, sunset 23:50 (the night lasts 15 minutes).
Subpolar == [latitude |-> 65, longitude |-> 25]
\* Sites above the polar circle in winter, the day lasting 60, 55 and 20
\* minutes around noon.
Arctic60 == [latitude |-> 67, longitude |-> 20]
Arctic55 == [latitude |-> 68, longitude |-> 20]
Arctic20 == [latitude |-> 69, longitude |-> 20]

Coords == {Temperate, Subpolar}
WindowCoords == {Temperate, Arctic60, Arctic55, Arctic20}

SunriseMinutes(loc) ==
    CASE loc = Temperate -> 6 * 60
      [] loc = Subpolar  -> 5
      [] loc = Arctic60  -> 11 * 60 + 30
      [] loc = Arctic55  -> 11 * 60 + 30
      [] loc = Arctic20  -> 11 * 60 + 50

SunsetMinutes(loc) ==
    CASE loc = Temperate -> 18 * 60
      [] loc = Subpolar  -> 23 * 60 + 50
      [] loc = Arctic60  -> 12 * 60 + 30
      [] loc = Arctic55  -> 12 * 60 + 25
      [] loc = Arctic20  -> 12 * 60 + 10

\* The calendar day an instant falls in.
DayOf(date) == date \div DayMs

SunCalcGetTimes(date, loc) ==
    [sunrise |-> DayOf(date) * DayMs + SunriseMinutes(loc) * MinuteMs,
     sunset  |-> DayOf(date) * DayMs + SunsetMinutes(loc) * MinuteMs]

(***************************************************************************)
(* useEffect(..., [location]), lines 39-64: the SunTimes the effect stores *)
(* for a location, computed for the day of the wall clock.                 *)
(***************************************************************************)
goldenHourMorningStart(times) == times.sunrise
\* Mutant of goldenHourMorningEnd: the margin taken as 60 minutes.
goldenHourMorningEndHour(times) == times.sunrise + 60 * 60 * 1000
goldenHourMorningEnd(times) == times.sunrise + GoldenMs
goldenHourEveningStart(times) == times.sunset - GoldenMs
goldenHourEveningEnd(times) == times.sunset
blueHourMorningStart(times) == times.sunrise - BlueMs
blueHourMorningEnd(times) == times.sunrise
blueHourEveningStart(times) == times.sunset
blueHourEveningEnd(times) == times.sunset + BlueMs

LocationEffect(loc, date) ==
    LET times == SunCalcGetTimes(date, loc)
    IN  [goldenHourStart |-> goldenHourMorningStart(times),
         goldenHourEnd   |-> goldenHourEveningEnd(times),
         blueHourStart   |-> blueHourMorningStart(times),
         blueHourEnd     |-> blueHourEveningEnd(times),
         sunrise         |-> times.sunrise,
         sunset          |-> times.sunset]

(***************************************************************************)
(* getCurrentLightingCondition, lines 66-91.                               *)
(***************************************************************************)
\* Mutant of LightingCondition: the golden windows exclude their end instants.
LightingConditionOpenEnds(st, now) ==
    IF st = Null THEN "day"
    ELSE IF \/ (now >= st.goldenHourStart /\ now < st.goldenHourStart + GoldenMs)
            \/ (now >= st.sunset - GoldenMs /\ now < st.sunset)
         THEN "golden"
         ELSE IF \/ (now >= st.sunrise - BlueMs /\ now <= st.sunrise)
                 \/ (now >= st.sunset /\ now <= st.sunset + BlueMs)
              THEN "blue"
              ELSE "day"

\* Mutant of LightingCondition: the blue windows take the golden margin.
LightingConditionLongBlue(st, now) ==
    IF st = Null THEN "day"
    ELSE IF \/ (now >= st.goldenHourStart /\ now <= st.goldenHourStart + GoldenMs)
            \/ (now >= st.sunset - GoldenMs /\ now <= st.sunset)
         THEN "golden"
         ELSE IF \/ (now >= st.sunrise - GoldenMs /\ now <= st.sunrise)
                 \/ (now >= st.sunset /\ now <= st.sunset + GoldenMs)
              THEN "blue"
              ELSE "day"

LightingCondition(st, now) ==
    IF st = Null THEN "day"
    ELSE
      LET morningGoldenStart == st.goldenHourStart
          morningGoldenEnd   == st.goldenHourStart + GoldenMs
          eveningGoldenStart == st.sunset - GoldenMs
          eveningGoldenEnd   == st.sunset
          morningBlueStart   == st.sunrise - BlueMs
          morningBlueEnd     == st.sunrise
          eveningBlueStart   == st.sunset
          eveningBlueEnd     == st.sunset + BlueMs
      IN  IF \/ (now >= morningGoldenStart /\ now <= morningGoldenEnd)
             \/ (now >= eveningGoldenStart /\ now <= eveningGoldenEnd)
          THEN "golden"
          ELSE IF \/ (now >= morningBlueStart /\ now <= morningBlueEnd)
                  \/ (now >= eveningBlueStart /\ now <= eveningBlueEnd)
               THEN "blue"
               ELSE "day"

getCurrentLightingCondition == LightingCondition(sunTimes, currentTime)

(***************************************************************************)
(* getNextSpecialTime, lines 93-120.                                       *)
(***************************************************************************)
SpecialTimes(st) ==
    << [type |-> "Blue Hour (Morning)",   time |-> st.sunrise - BlueMs],
       [type |-> "Golden Hour (Morning)", time |-> st.sunrise],
       [type |-> "Golden Hour (Evening)", time |-> st.sunset - GoldenMs],
       [type |-> "Blue Hour (Evening)",   time |-> st.sunset] >>

\* times.filter(t => t.time.getTime() > now)
UpcomingTimes(st, now) == SelectSeq(SpecialTimes(st), LAMBDA t : t.time > now)

\* The fallback of lines 112-119: tomorrow is one day after the wall clock.
TomorrowFirstTime(loc, today) ==
    LET tomorrow == today + DayMs
        tomorrowTimes == SunCalcGetTimes(tomorrow, loc)
    IN  [type |-> "Blue Hour (Morning)", time |-> tomorrowTimes.sunrise - BlueMs]

NextSpecialTime(st, now, loc, today) ==
    IF st = Null THEN Null
    ELSE IF Len(UpcomingTimes(st, now)) > 0
         THEN UpcomingTimes(st, now)[1]
         ELSE TomorrowFirstTime(loc, today)

getNextSpecialTime == NextSpecialTime(sunTimes, currentTime, location, clock)

(***************************************************************************)
(* The location-fix handler getCurrentLocation, lines 134-171, and the two *)
(* buttons that call it.  A request is a record of its status and of the   *)
(* toasts it raised.                                                       *)
(***************************************************************************)
Pending == [status |-> "pending", toasts |-> <<>>]
Outstanding == {i \in 1..Len(requests) : requests[i].status = "pending"}

\* Lines 135-148 up to the await; without navigator.geolocation the throw of
\* line 139 runs the catch and the finally in the same call.
GetCurrentLocation ==
    /\ Len(requests) < MaxRequests
    /\ IF hasGeolocation
       THEN /\ requests' = Append(requests, Pending)
            /\ isLoadingLocation' = TRUE
       ELSE /\ requests' = Append(requests,
                  [status |-> "rejected", toasts |-> <<"destructive">>])
            /\ isLoadingLocation' = FALSE
    /\ clicks' = clicks + 1
    /\ UNCHANGED <<location, sunTimes, currentTime, clock, hasGeolocation,
                   targetTime, rendered>>

\* Lines 206-217: rendered while there is no location, disabled while loading.
ClickGetLocation ==
    /\ location = Null
    /\ ~isLoadingLocation
    /\ GetCurrentLocation

\* Lines 302-309: rendered once there is a location, never disabled.
ClickUpdateLocation ==
    /\ location # Null
    /\ GetCurrentLocation

\* Lines 150-160 and 168-170: the position promise resolves; setLocation gives
\* a new object, so the effect of lines 39-64 runs on every fix.
PositionResolved(i, position) ==
    /\ i \in Outstanding
    /\ location' = position
    /\ sunTimes' = LocationEffect(position, clock)
    /\ requests' = [requests EXCEPT ![i] =
                      [status |-> "resolved", toasts |-> <<"default">>]]
    /\ isLoadingLocation' = FALSE
    /\ UNCHANGED <<currentTime, clock, hasGeolocation, clicks, targetTime,
                   rendered>>

\* Mutant of PositionRejected: the finally block is missing.
PositionRejectedKeepsLoading(i) ==
    /\ i \in Outstanding
    /\ requests' = [requests EXCEPT ![i] =
                      [status |-> "rejected",
                       toasts |-> Append(@.toasts, "destructive")]]
    /\ UNCHANGED <<location, sunTimes, currentTime, isLoadingLocation, clock,
                   hasGeolocation, clicks, targetTime, rendered>>

\* Mutant of PositionRejected: the catch block calls setLocation(null).
PositionRejectedClearsLocation(i) ==
    /\ i \in Outstanding
    /\ requests' = [requests EXCEPT ![i] =
                      [status |-> "rejected",
                       toasts |-> Append(@.toasts, "destructive")]]
    /\ isLoadingLocation' = FALSE
    /\ location' = Null
    /\ UNCHANGED <<sunTimes, currentTime, clock, hasGeolocation, clicks,
                   targetTime, rendered>>

\* Lines 161-170: the position promise rejects (denied, unavailable, timeout).
PositionRejected(i) ==
    /\ i \in Outstanding
    /\ requests' = [requests EXCEPT ![i] =
                      [status |-> "rejected",
                       toasts |-> Append(@.toasts, "destructive")]]
    /\ isLoadingLocation' = FALSE
    /\ UNCHANGED <<location, sunTimes, currentTime, clock, hasGeolocation,
                   clicks, targetTime, rendered>>

FixSucceeds == \E i \in 1..MaxRequests : \E c \in Coords : PositionResolved(i, c)
FixFails == \E i \in 1..MaxRequests : PositionRejected(i)

(***************************************************************************)
(* The timer of lines 30-36.  Wall-clock time passes on its own; the       *)
(* interval callback stores the wall clock in currentTime.                 *)
(***************************************************************************)
TimePasses(step, until) ==
    /\ clock + step <= until
    /\ clock + step - currentTime <= MaxLag * step
    /\ clock' = clock + step
    /\ UNCHANGED <<location, sunTimes, currentTime, isLoadingLocation,
                   hasGeolocation, requests, clicks, targetTime, rendered>>

\* setCurrentTime(new Date())
Tick ==
    /\ currentTime # clock
    /\ currentTime' = clock
    /\ UNCHANGED <<location, sunTimes, isLoadingLocation, clock,
                   hasGeolocation, requests, clicks, targetTime, rendered>>

Elapse == TimePasses(StepMs, Horizon)

\* The minutes of the first day at which the page may be opened
\* (00:00, 17:50 and 23:40).
StartMinutes == {0, 17 * 60 + 50, 23 * 60 + 40}

Init ==
    /\ location = Null
    /\ sunTimes = Null
    /\ clock \in {m * MinuteMs : m \in StartMinutes}
    /\ currentTime = clock
    /\ isLoadingLocation = FALSE
    /\ hasGeolocation \in BOOLEAN
    /\ requests = <<>>
    /\ clicks = 0
    /\ targetTime = 0
    /\ rendered = ""

Next ==
    \/ Elapse
    \/ Tick
    \/ ClickGetLocation
    \/ ClickUpdateLocation
    \/ FixSucceeds
    \/ FixFails

Spec == Init /\ [][Next]_vars

(***************************************************************************)
(* formatTimeUntil, lines 122-132.                                         *)
(***************************************************************************)
DigitChar(d) ==
    CASE d = 0 -> "0" [] d = 1 -> "1" [] d = 2 -> "2" [] d = 3 -> "3"
      [] d = 4 -> "4" [] d = 5 -> "5" [] d = 6 -> "6" [] d = 7 -> "7"
      [] d = 8 -> "8" [] d = 9 -> "9"

\* Number.prototype.toString of a non-negative integer.
RECURSIVE NumberToString(_)
NumberToString(n) ==
    IF n < 10 THEN DigitChar(n) ELSE NumberToString(n \div 10) \o DigitChar(n % 10)

\* String.prototype.padStart(2, '0')
PadStart2(str) == IF Len(str) < 2 THEN "0" \o str ELSE str

\* Mutant of FormatTimeUntil: the hours wrap at 24.
FormatTimeUntilWrapped(target, now) ==
    LET diffMs == target - now
    IN  IF diffMs <= 0 THEN "00:00:00"
        ELSE
          LET hours   == (diffMs \div (1000 * 60 * 60)) % 24
              minutes == (diffMs % (1000 * 60 * 60)) \div (1000 * 60)
              seconds == (diffMs % (1000 * 60)) \div 1000
          IN  PadStart2(NumberToString(hours)) \o ":"
                \o PadStart2(NumberToString(minutes)) \o ":"
                \o PadStart2(NumberToString(seconds))

FormatTimeUntil(target, now) ==
    LET diffMs == target - now
    IN  IF diffMs <= 0 THEN "00:00:00"
        ELSE
          LET hours   == diffMs \div (1000 * 60 * 60)
              minutes == (diffMs % (1000 * 60 * 60)) \div (1000 * 60)
              seconds == (diffMs % (1000 * 60)) \div 1000
          IN  PadStart2(NumberToString(hours)) \o ":" \o PadStart2(NumberToString(minutes))
                \o ":" \o PadStart2(NumberToString(seconds))

formatTimeUntil(target) == FormatTimeUntil(target, currentTime)

(***************************************************************************)
(* SpecFormat: formatTimeUntil on its own.  The initial states draw the    *)
(* current time and the target; the one action is the call.                *)
(***************************************************************************)
FormatNows == {0, 17 * HourMs + 123}

FormatDiffs ==
    {h * HourMs + m * MinuteMs + sec * 1000 + ms :
        h \in {0, 1, 9, 10, 24, 100}, m \in {0, 1, 59},
        sec \in {0, 1, 59}, ms \in {0, 999}}
    \cup {-3661000, -1000, -1}

InitFormat ==
    /\ location = Null
    /\ sunTimes = Null
    /\ clock \in FormatNows
    /\ currentTime = clock
    /\ isLoadingLocation = FALSE
    /\ hasGeolocation = TRUE
    /\ requests = <<>>
    /\ clicks = 0
    /\ targetTime \in {currentTime + d : d \in FormatDiffs}
    /\ rendered = ""

Countdown ==
    /\ rendered = ""
    /\ rendered' = formatTimeUntil(targetTime)
    /\ UNCHANGED <<location, sunTimes, currentTime, isLoadingLocation, clock,
                   hasGeolocation, requests, clicks, targetTime>>

NextFormat == Countdown

SpecFormat == InitFormat /\ [][NextFormat]_vars

(***************************************************************************)
(* SpecWindows: the window computation and the classification around noon, *)
(* at a finer grain and with short winter days.  A fix is outstanding at   *)
(* the start; it resolves to any of WindowCoords while the clock runs.     *)
(***************************************************************************)
InitWindows ==
    /\ location = Null
    /\ sunTimes = Null
    /\ clock = WindowsStart
    /\ currentTime = clock
    /\ isLoadingLocation = TRUE
    /\ hasGeolocation = TRUE
    /\ requests = <<Pending>>
    /\ clicks = 1
    /\ targetTime = 0
    /\ rendered = ""

ElapseFine == TimePasses(FineStepMs, WindowsStart + FineTicks * FineStepMs)

FixSucceedsAround == \E c \in WindowCoords : PositionResolved(1, c)

NextWindows ==
    \/ ElapseFine
    \/ Tick
    \/ FixSucceedsAround

SpecWindows == InitWindows /\ [][NextWindows]_vars

(***************************************************************************)
(* Properties.                                                             *)
(***************************************************************************)
Sunrise == sunTimes.sunrise
Sunset == sunTimes.sunset
Rejected == {i \in 1..Len(requests) : requests[i].status = "rejected"}
Resolved == {i \in 1..Len(requests) : requests[i].status = "resolved"}

\* Sunrise and sunset more than 50 minutes apart.
NormalSeparation == sunTimes # Null /\ Sunset - Sunrise > 50 * MinuteMs

\* C1: whenever a coordinate is set, getNextSpecialTime returns an event, and
\* the event's instant is strictly after the current time.
C1_NextEventAfterNow ==
    location # Null =>
        /\ getNextSpecialTime # Null
        /\ getNextSpecialTime.time > currentTime

InGolden(now) ==
    \/ (Sunrise <= now /\ now <= Sunrise + 30 * MinuteMs)
    \/ (Sunset - 30 * MinuteMs <= now /\ now <= Sunset)

InBlueClosed(now) ==
    \/ (Sunrise - 20 * MinuteMs <= now /\ now <= Sunrise)
    \/ (Sunset <= now /\ now <= Sunset + 20 * MinuteMs)

InBlueBesideGolden(now) ==
    \/ (Sunrise - 20 * MinuteMs <= now /\ now < Sunrise)
    \/ (Sunset < now /\ now <= Sunset + 20 * MinuteMs)

\* C2 as stated: with sunrise S and sunset T more than 50 minutes apart, the
\* lighting condition is golden on [S, S+30min] and [T-30min, T], blue on
\* [S-20min, S] and [T, T+20min], both intervals closed, and day elsewhere.
C2_ClosedGoldenClosedBlue ==
    NormalSeparation =>
        /\ InGolden(currentTime) => getCurrentLightingCondition = "golden"
        /\ InBlueClosed(currentTime) => getCurrentLightingCondition = "blue"
        /\ (~InGolden(currentTime) /\ ~InBlueClosed(currentTime))
              => getCurrentLightingCondition = "day"

\* C2 amended: with S and T more than 50 minutes apart, the lighting condition
\* is golden on [S, S+30min] and [T-30min, T], blue on [S-20min, S) and
\* (T, T+20min], and day elsewhere: at S and at T it is golden, not blue.
C2_ClosedGoldenThenBlue ==
    NormalSeparation =>
        /\ InGolden(currentTime) => getCurrentLightingCondition = "golden"
        /\ InBlueBesideGolden(currentTime) => getCurrentLightingCondition = "blue"
        /\ (~InGolden(currentTime) /\ ~InBlueBesideGolden(currentTime))
              => getCurrentLightingCondition = "day"

\* C2 witness: at sunrise itself, under normal separation, the condition is
\* golden.
C2_GoldenAtSunrise ==
    /\ NormalSeparation
    /\ currentTime = Sunrise
    /\ getCurrentLightingCondition = "golden"

\* The four windows of lines 44-53 as <<start, end>> pairs, from the stored
\* SunTimes and the effect's arithmetic.
StoredTimes == [sunrise |-> sunTimes.sunrise, sunset |-> sunTimes.sunset]
MorningBlue == <<sunTimes.blueHourStart, blueHourMorningEnd(StoredTimes)>>
MorningGolden == <<sunTimes.goldenHourStart, goldenHourMorningEnd(StoredTimes)>>
EveningGolden == <<goldenHourEveningStart(StoredTimes), sunTimes.goldenHourEnd>>
EveningBlue == <<blueHourEveningStart(StoredTimes), sunTimes.blueHourEnd>>

\* Half-open intervals [a[1], a[2]) and [b[1], b[2]) share no instant.
Apart(a, b) == a[2] <= b[1] \/ b[2] <= a[1]

WindowsLaidOut ==
    /\ Apart(MorningBlue, MorningGolden)
    /\ Apart(MorningBlue, EveningGolden)
    /\ Apart(MorningBlue, EveningBlue)
    /\ Apart(MorningGolden, EveningGolden)
    /\ Apart(MorningGolden, EveningBlue)
    /\ Apart(EveningGolden, EveningBlue)
    /\ MorningBlue = <<Sunrise - 20 * MinuteMs, Sunrise>>
    /\ MorningGolden = <<Sunrise, Sunrise + 30 * MinuteMs>>
    /\ EveningGolden = <<Sunset - 30 * MinuteMs, Sunset>>
    /\ EveningBlue = <<Sunset, Sunset + 20 * MinuteMs>>

\* C3 as stated: with sunrise and sunset more than 50 minutes apart, the four
\* half-open windows are pairwise disjoint, morning-blue ends at sunrise where
\* morning-golden starts, and evening-golden ends at sunset where evening-blue
\* starts.
C3_DisjointBeyond50 == NormalSeparation => WindowsLaidOut

\* C3 amended: the same with sunrise and sunset at least 60 minutes apart
\* (between 50 and 60 minutes the two golden windows overlap).
C3_DisjointFrom60 ==
    (sunTimes # Null /\ Sunset - Sunrise >= 60 * MinuteMs) => WindowsLaidOut

\* C3 witness: windows are stored for a day of exactly 60 minutes.
C3_SixtyMinuteDay == sunTimes # Null /\ Sunset - Sunrise = 60 * MinuteMs

\* The last boundary of the stored day, sunset, is not after the current time.
AllPassed == sunTimes # Null /\ Sunset <= currentTime

\* The event the stored day's boundaries give for an instant, taken in the
\* order morning-blue-start, sunrise, evening-golden-start, sunset, and after
\* the last of them the morning-blue-start of the day after the stored day.
ChronologicalEvent(now) ==
    CASE now < Sunrise - 20 * MinuteMs ->
           [type |-> "Blue Hour (Morning)", time |-> Sunrise - 20 * MinuteMs]
      [] now >= Sunrise - 20 * MinuteMs /\ now < Sunrise ->
           [type |-> "Golden Hour (Morning)", time |-> Sunrise]
      [] now >= Sunrise /\ now < Sunset - 30 * MinuteMs ->
           [type |-> "Golden Hour (Evening)", time |-> Sunset - 30 * MinuteMs]
      [] now >= Sunset - 30 * MinuteMs /\ now < Sunset ->
           [type |-> "Blue Hour (Evening)", time |-> Sunset]
      [] OTHER ->
           [type |-> "Blue Hour (Morning)",
            time |-> SunCalcGetTimes(Sunrise + DayMs, location).sunrise
                       - 20 * MinuteMs]

\* C4: with the coordinate fixed, as the current time advances the instant of
\* getNextSpecialTime never decreases and strictly increases when the current
\* time passes it; the events come in the order morning-blue-start, sunrise,
\* evening-golden-start, sunset, and once sunset has passed the event is the
\* next calendar day's morning-blue-start, labeled 'Blue Hour (Morning)'.
C4_EventsInChronologicalOrder ==
    [][ /\ (sunTimes # Null /\ sunTimes' = sunTimes /\ location' = location
              /\ currentTime' > currentTime)
             => /\ getNextSpecialTime'.time >= getNextSpecialTime.time
                /\ currentTime' >= getNextSpecialTime.time
                     => getNextSpecialTime'.time > getNextSpecialTime.time
        /\ (sunTimes' # Null /\ Sunset' - Sunrise' > 50 * MinuteMs)
             => getNextSpecialTime' = ChronologicalEvent(currentTime)' ]_vars

\* The strings the claim's fields take: at least two digits, zero-padded.
Field(n) ==
    IF n < 10 THEN "0" \o DigitChar(n)
    ELSE IF n < 100 THEN DigitChar(n \div 10) \o DigitChar(n % 10)
    ELSE DigitChar(n \div 100) \o DigitChar((n \div 10) % 10) \o DigitChar(n % 10)

\* C5: formatTimeUntil returns "00:00:00" when the target is not after the
\* current time; otherwise, with d the whole seconds in between, it returns
\* HH:MM:SS with MM = floor(d/60) mod 60, SS = d mod 60 and HH = floor(d/3600)
\* not wrapped modulo 24, each field zero-padded to at least two digits; a
\* target 3661 seconds ahead gives "01:01:01".
C5_Countdown ==
    rendered # "" =>
        LET d == (targetTime - currentTime) \div 1000
            HH == d \div 3600
            MM == (d \div 60) % 60
            SS == d % 60
        IN  /\ targetTime <= currentTime => rendered = "00:00:00"
            /\ targetTime > currentTime =>
                  /\ rendered = Field(HH) \o ":" \o Field(MM) \o ":" \o Field(SS)
                  /\ MM < 60 /\ SS < 60
                  /\ HH * 3600 + MM * 60 + SS = d
            /\ targetTime = currentTime + 3661 * 1000 => rendered = "01:01:01"

\* C5 witness: a countdown of more than a day has been formatted, its hours
\* field above 23.
C5_MoreThanADay ==
    /\ targetTime - currentTime = 24 * HourMs + 59 * MinuteMs + 1999
    /\ rendered = "24:59:01"

\* C6: at most one location-fix request is outstanding at a time, and
\* isLoadingLocation is true whenever one is outstanding.
C6_SingleFlight ==
    /\ Cardinality(Outstanding) <= 1
    /\ Outstanding # {} => isLoadingLocation

\* C7: a request that fails clears the loading state and has exactly one
\* error report; the failure starts no new request, and a request starts only
\* with a click.
C7_FailureReportedOnce ==
    /\ [][ Rejected' # Rejected =>
             /\ ~isLoadingLocation'
             /\ Outstanding' \subseteq Outstanding ]_vars
    /\ [][ Len(requests') # Len(requests) =>
             /\ Len(requests') = Len(requests) + 1
             /\ clicks' = clicks + 1 ]_vars
    /\ [](\A i \in Rejected : requests[i].toasts = <<"destructive">>)

\* C7 witness: a request to the geolocation service was rejected while
\* another request is still outstanding; loading is cleared and the rejected
\* request has its one error report.
C7_RejectedBesidePending ==
    /\ hasGeolocation
    /\ Outstanding # {}
    /\ ~isLoadingLocation
    /\ \E i \in Rejected : requests[i].toasts = <<"destructive">>

\* C8: cached windows are those of the calendar date of now at the current
\* coordinate (here: whenever the wall clock and the current time are on the
\* same date), and a tick that does not change the date leaves them unchanged.
C8_CacheIsOfToday ==
    [][ /\ (sunTimes' # Null /\ DayOf(currentTime') = DayOf(clock'))
             => sunTimes' = LocationEffect(location', currentTime')
        /\ (currentTime' # currentTime /\ DayOf(currentTime') = DayOf(currentTime))
             => sunTimes' = sunTimes ]_vars

\* getCurrentLightingCondition with the blue test of lines 85-88 moved before
\* the golden test of lines 80-83.
BlueFirstLightingCondition(st, now) ==
    IF st = Null THEN "day"
    ELSE IF \/ (now >= st.sunrise - BlueMs /\ now <= st.sunrise)
            \/ (now >= st.sunset /\ now <= st.sunset + BlueMs)
         THEN "blue"
         ELSE IF \/ (now >= st.goldenHourStart
                        /\ now <= st.goldenHourStart + GoldenMs)
                 \/ (now >= st.sunset - GoldenMs /\ now <= st.sunset)
              THEN "golden"
              ELSE "day"

\* C9 as stated: under normal separation, testing blue before golden gives
\* the same lighting condition as testing golden before blue, at every
\* instant.
C9_OrderNeverMatters ==
    NormalSeparation =>
        getCurrentLightingCondition
          = BlueFirstLightingCondition(sunTimes, currentTime)

\* C9 amended: under normal separation the two orders give the same condition
\* at every instant other than sunrise and sunset; at sunrise and at sunset
\* golden-first gives golden and blue-first gives blue.
C9_OrderMattersAtSunriseAndSunset ==
    NormalSeparation =>
        IF currentTime \in {Sunrise, Sunset}
        THEN /\ getCurrentLightingCondition = "golden"
             /\ BlueFirstLightingCondition(sunTimes, currentTime) = "blue"
        ELSE getCurrentLightingCondition
               = BlueFirstLightingCondition(sunTimes, currentTime)

\* C9 witness: the current time is sunset, under normal separation.
C9_AtSunset == NormalSeparation /\ currentTime = Sunset

\* C10: a failed request leaves location and sunTimes as they were; without a
\* location there are no windows, the condition is day and there is no next
\* event; the location changes only when a request resolves.
C10_FailureKeepsLocation ==
    /\ [][ Rejected' # Rejected =>
             (location' = location /\ sunTimes' = sunTimes) ]_vars
    /\ [][ location' # location => Resolved' # Resolved ]_vars
    /\ [](location = Null =>
             /\ sunTimes = Null
             /\ getCurrentLightingCondition = "day"
             /\ getNextSpecialTime = Null)

\* C10 witness: a request was rejected after an earlier one had set the
\* location, and the windows of that location are still stored.
C10_RejectedAfterFix ==
    /\ Rejected # {}
    /\ location # Null
    /\ sunTimes # Null

====
